---- MODULE Spec2Model ----
(***************************************************************************)
(* A model of the goga evolutionary-search engine (package goga of         *)
(* src/examples/string.go, lines 114-384) driven by the string chromosome  *)
(* Member of the same file (lines 43-92).                                  *)
(*                                                                         *)
(* Chromosomes are heap objects named by an identity (the Go pointer);     *)
(* slices are sequences of identities.  Fitness values are float64 in the  *)
(* code and exact rationals [n, d] here; d = 0 stands for NaN.             *)
(* Go indexes slices from 0 and TLA+ sequences from 1: the Go index j is   *)
(* position j + 1 of the sequence.                                         *)
(***************************************************************************)
EXTENDS Integers, Sequences, FiniteSets, TLC

\* ------------------------------------------------------------- bounds ----

\* Largest initial population handed to Run.
MaxPopulation == 10

\* Largest value of the MaxIterations field.
MaxIterationsBound == 2

\* Largest parent collection handed directly to Crossover.
MaxParents == 8

\* Largest population handed directly to Selection, and its largest fitness.
MaxPool == 4
MaxFitness == 3

\* The alphabet of Mutate (26 letters in the code) and the target word of
\* main ("renquinn" in the code), both cut down.
Alphabet == {"a", "b"}
Target == <<"a">>

\* The values rand.Float64() takes in Run: r = 0 and r = 1/2.
RunDraws == {[n |-> 0, d |-> 1], [n |-> 1, d |-> 2]}

\* ------------------------------------------------- float64 as rationals --

NaN == [n |-> 0, d |-> 0]

Rat(k) == [n |-> k, d |-> 1]

IsNaN(x) == x.d = 0

Abs(k) == IF k < 0 THEN -k ELSE k

RECURSIVE GCD(_, _)
GCD(a, b) == IF b = 0 THEN a ELSE GCD(b, a % b)

Reduce(num, den) ==
    LET g == GCD(Abs(num), den)
    IN  IF den = 0 THEN NaN ELSE [n |-> num \div g, d |-> den \div g]

\* x + y; NaN is absorbing.
FAdd(x, y) ==
    IF IsNaN(x) \/ IsNaN(y) THEN NaN
    ELSE Reduce(x.n * y.d + y.n * x.d, x.d * y.d)

\* x / y for y >= 0.  0/0 is NaN; every fitness of the model is >= 0, so a
\* zero divisor (a zero sum) only ever divides zero.
FDiv(x, y) ==
    IF IsNaN(x) \/ IsNaN(y) \/ y.n = 0 THEN NaN
    ELSE Reduce(x.n * y.d, x.d * y.n)

\* x > y; false when either side is NaN.
FGt(x, y) == ~IsNaN(x) /\ ~IsNaN(y) /\ x.n * y.d > y.n * x.d

\* x < y; false when either side is NaN.
FLt(x, y) == FGt(y, x)

\* ------------------------------------------------------------- Member ----

\* d[i][j] of ld: the edit distance of the first i bytes of s and the first
\* j bytes of t.
RECURSIVE ldCell(_, _, _, _)
ldCell(s, t, i, j) ==
    IF i = 0 THEN j
    ELSE IF j = 0 THEN i
    ELSE IF s[i] = t[j] THEN ldCell(s, t, i - 1, j - 1)
    ELSE LET up   == ldCell(s, t, i - 1, j)
             left == ldCell(s, t, i, j - 1)
             diag == ldCell(s, t, i - 1, j - 1)
             m1   == IF left < up THEN left ELSE up
             m2   == IF diag < m1 THEN diag ELSE m1
         IN  m2 + 1

ld(s, t) == ldCell(s, t, Len(s), Len(t))

\* Member.IsGoodEnough: Fitness > 7.0 for the eight-letter target of main,
\* that is, only a fitness of len(target) passes.
Threshold == Rat(Len(Target) - 1)

IsGoodEnough(m) == FGt(m.Fitness, Threshold)

\* A faulty CalculateFitness: the fitness field is left as it was.
KeepFitness(m, target) == m

\* Member.CalculateFitness
CalculateFitness(m, target) ==
    [m EXCEPT !.Fitness = Rat(Len(m.Value) - ld(m.Value, target))]

\* Member.Normalize
Normalize(m, total) == [m EXCEPT !.Fitness = FDiv(m.Fitness, total)]

\* Member.AccNormalize
AccNormalize(m, accumulation) == [m EXCEPT !.Fitness = accumulation]

\* Member.GetFitness
GetFitness(m) == m.Fitness

\* strings.Replace(value, old, new, 1): the first occurrence of old replaced.
ReplaceFirst(value, old, new) ==
    LET at == {k \in 1..Len(value) : value[k] = old}
        first == CHOOSE k \in at : \A k2 \in at : k <= k2
    IN  IF at = {} THEN value ELSE [value EXCEPT ![first] = new]

\* Member.Mutate: every character c of the old value is, with probability
\* 0.2, the occasion to assign m.Value the OLD value with the first c
\* replaced by a random letter; the last such assignment stands.
MutateResults(value) ==
    {value} \cup {ReplaceFirst(value, value[k], x) : k \in 1..Len(value), x \in Alphabet}

\* Member.Breed with crossoverSite = site: the two children's values.
Breed(mom, dad, site) ==
    << SubSeq(mom.Value, 1, site) \o SubSeq(dad.Value, site + 1, Len(dad.Value)),
       SubSeq(dad.Value, 1, site) \o SubSeq(mom.Value, site + 1, Len(mom.Value)) >>

\* rand.Intn(len(dad.Value))
BreedSites(dad) == 0..(Len(dad.Value) - 1)

\* &Member{Value: v}: the fitness field is Go's zero value.
NewMember(v) == [Value |-> v, Fitness |-> Rat(0)]

\* Every value the generator of main can produce: len(target) letters.
RECURSIVE Words(_)
Words(k) == IF k = 0 THEN {<<>>}
            ELSE {<<x>> \o w : x \in Alphabet, w \in Words(k - 1)}

Values == Words(Len(Target))

\* ------------------------------------------------- goga: pure helpers ----

\* No chromosome (a nil interface value).
Nil == 0

\* getBestChromosome's loop from position k on, with the best so far.
RECURSIVE BestFrom(_, _, _, _)
BestFrom(h, population, k, best) ==
    IF k > Len(population) THEN best
    ELSE LET individual == population[k]
         IN  IF FGt(GetFitness(h[individual]), GetFitness(h[best]))
                \/ IsNaN(GetFitness(h[best]))
             THEN BestFrom(h, population, k + 1, individual)
             ELSE BestFrom(h, population, k + 1, best)

\* A faulty getBestChromosome: it returns population[0] without the loop.
FirstChromosome(h, population) == population[1]

\* getBestChromosome; the population is not empty (population[0] panics
\* otherwise, which callers guard).
getBestChromosome(h, population) == BestFrom(h, population, 1, population[1])

\* isGoodEnough
isGoodEnough(h, population) == IsGoodEnough(h[getBestChromosome(h, population)])

\* Population.Less
Less(h, a, b) == FLt(GetFitness(h[a]), GetFitness(h[b]))

\* The inner loop of insertion sort: x sinks towards the front of the sorted
\* prefix while it is Less than its left neighbour.
RECURSIVE Sink(_, _, _)
Sink(h, prefix, x) ==
    IF prefix # <<>> /\ Less(h, x, prefix[Len(prefix)])
    THEN Sink(h, SubSeq(prefix, 1, Len(prefix) - 1), x) \o <<prefix[Len(prefix)]>>
    ELSE prefix \o <<x>>

\* sort.Sort(Population(population)): ascending by fitness.  For the slice
\* lengths of the model (at most 12) sort.Sort is an insertion sort.
RECURSIVE SortFrom(_, _, _)
SortFrom(h, done, rest) ==
    IF rest = <<>> THEN done
    ELSE SortFrom(h, Sink(h, done, Head(rest)), Tail(rest))

SortAscending(h, population) == SortFrom(h, <<>>, population)

\* sort.Reverse(Population(population)) only wraps the slice in a value that
\* sorts the other way; the statement discards it and reorders nothing.
sortReverse(population) == population

\* sum += chromosome.GetFitness() over the population
RECURSIVE SumFitness(_, _, _)
SumFitness(h, population, k) ==
    IF k > Len(population) THEN Rat(0)
    ELSE FAdd(SumFitness(h, population, k + 1), GetFitness(h[population[k]]))

\* population[i].Normalize(sum) for every i from k on; returns the heap.
RECURSIVE NormalizeAll(_, _, _, _)
NormalizeAll(h, population, total, k) ==
    IF k > Len(population) THEN h
    ELSE NormalizeAll([h EXCEPT ![population[k]] = Normalize(@, total)],
                      population, total, k + 1)

\* accumulation += fitness; population[i].AccNormalize(accumulation), from
\* position k on; returns the heap.
RECURSIVE AccumulateAll(_, _, _, _)
AccumulateAll(h, population, accumulation, k) ==
    IF k > Len(population) THEN h
    ELSE LET acc == FAdd(accumulation, GetFitness(h[population[k]]))
         IN  AccumulateAll([h EXCEPT ![population[k]] = AccNormalize(@, acc)],
                           population, acc, k + 1)

\* A faulty removal: the population is handed back whole.
RemoveNothing(population, k) == population

\* append(population[:i], population[i+1:]...) for the position k = i + 1
RemoveAt(population, k) ==
    SubSeq(population, 1, k - 1) \o SubSeq(population, k + 1, Len(population))

\* Step 5 of selectParent: the first position whose fitness exceeds r, or
\* the last position when there is none.
ScanPosition(h, population, r) ==
    LET over == {k \in 1..Len(population) : FGt(GetFitness(h[population[k]]), r)}
    IN  IF over = {} THEN Len(population)
        ELSE CHOOSE k \in over : \A k2 \in over : k <= k2

\* Steps 1-3 of selectParent (lines 204-225): the sorted population and the
\* heap in which every member's fitness is its accumulated normalized value.
Accumulated(h, population) ==
    LET total  == SumFitness(h, population, 1)
        h1     == NormalizeAll(h, population, total, 1)
        sorted == sortReverse(SortAscending(h1, population))
    IN  [heap |-> AccumulateAll(h1, sorted, Rat(0), 1), sorted |-> sorted]

\* selectParent with rand.Float64() = r, on a population that is not empty:
\* the parent, the rest of the population and the heap it leaves.
selectParent(h, population, r) ==
    LET a == Accumulated(h, population)
        k == ScanPosition(a.heap, a.sorted, r)
    IN  [parent |-> a.sorted[k], rest |-> RemoveAt(a.sorted, k), heap |-> a.heap]

\* One r of [0, 1) for every outcome rand.Float64() can bring about: the scan
\* compares r with the accumulated values only, so r = 0 and r = each
\* accumulated value within [0, 1) stand for all of [0, 1).
AllDraws(h, population) ==
    LET a == Accumulated(h, population)
        within == {k \in 1..Len(a.sorted) :
                      /\ FGt(GetFitness(a.heap[a.sorted[k]]), Rat(0))
                      /\ FLt(GetFitness(a.heap[a.sorted[k]]), Rat(1))}
    IN  {Rat(0)} \cup {GetFitness(a.heap[a.sorted[k]]) : k \in within}

\* A faulty parentsCount: the whole population.
ParentsCountAll(n) == n

\* len(population) / 2 of Selection
ParentsCount(n) == n \div 2

\* A faulty truncation: to a multiple of two.
TruncatedLengthEven(n) == n - (n % 2)

\* Crossover's truncation: length - length % 4 (the length itself when it
\* is a multiple of four).
TruncatedLength(n) == IF n % 4 # 0 THEN n - (n % 4) ELSE n

\* The Go indexes at which Crossover spawns a breeding task.
ProducerIndexes(len) == {j \in 0..(len - 1) : j % 2 = 0}

\* fmt.Sprintf("Failed to converge after %d iterations.", n)
StatusFailed(n) == <<"Failed to converge after ", n, " iterations.">>

\* A faulty success status: the generation counted from one.
StatusTookOneBased(n) == <<"Took ", n + 1, " generations.">>

\* fmt.Sprintf("Took %d generations.", n)
StatusTook(n) == <<"Took ", n, " generations.">>

\* -------------------------------------------------------------- state ----

VARIABLES
    entry,           \* the exported method called: "Run", "Selection", "Crossover",
                     \*   "CrossoverSequential"
    pc,              \* where the call stands
    heap,            \* identity -> Member, every chromosome allocated so far
    population,      \* Run's (and Selection's argument) population slice
    MaxIterations,   \* g.MaxIterations
    i,               \* Run's loop counter (the sequential Crossover's, when called)
    Status,          \* g.Status ("" before Run sets it)
    Result,          \* g.Result (Nil before Run sets it)
    pool,            \* Selection's shrinking population
    parents,         \* Selection's parents, then Run's
    cparents,        \* Crossover's own (truncated) parents slice
    producers,       \* Crossover's breeding tasks: Go index -> state, children
    closed,          \* whether channel c is closed
    count,           \* Crossover's count
    nextGeneration,  \* Crossover's result, then Run's nextGeneration
    tasks,           \* the WaitGroup tasks of the running stage: position -> state
    called,          \* history: the stages Run has invoked, in order
    selInput,        \* history: the population and its fitness sum at Selection's call,
                     \*   and how often each member has been through Normalize and
                     \*   AccNormalize since
    bred,            \* history: <<mom, dad>> -> number of Breed calls, this Crossover
    input            \* history: the values of the population handed to Run

vars == <<entry, pc, heap, population, MaxIterations, i, Status, Result, pool,
          parents, cparents, producers, closed, count, nextGeneration, tasks,
          called, selInput, bred, input>>

\* The function with an empty domain: no task, no producer, no heap cell.
Empty == <<>>

\* g.Converter of main: the type assertion member.(*Member) hands back the
\* very chromosome Breed made.
Converter(c) == c

\* The identities 1..n, in order.
Identities(n) == [k \in 1..n |-> k]

\* The largest identity allocated so far.
MaxIdentity(h) == IF DOMAIN h = {} THEN 0
                  ELSE CHOOSE a \in DOMAIN h : \A b \in DOMAIN h : b <= a

\* The members of a slice
Members(slice) == {slice[k] : k \in 1..Len(slice)}

\* A faulty task index: every task reads the loop variable the tasks share,
\* and finds the first index in it.
TaskIndexShared(k) == 1

\* go func(j int) { ... }(i): the index j of the task spawned at position k
\* is its own copy of i.
TaskIndex(k) == k

\* One task per position of a slice, none started.
SpawnTasks(slice) == [k \in 1..Len(slice) |-> "ready"]

\* A faulty barrier: wg.Wait() that returns once one task is done.
WaitsForOne == tasks = Empty \/ \E k \in DOMAIN tasks : tasks[k] = "done"

\* A faulty barrier: wg.Wait() that waits for no task.
WaitsForNone == TRUE

\* wg.Wait() returns: every task has called wg.Done().
AllDone == \A k \in DOMAIN tasks : tasks[k] = "done"

\* The populations a generator hands to Run: n times one word, or one word
\* followed by n - 1 times another.
InitialValues(n) ==
    {[k \in 1..n |-> IF k <= m THEN v ELSE w] : m \in {0, 1}, v \in Values, w \in Values}

\* The state in which Run(target, population) is called on a fresh engine
\* (Init of the code: Result and Status are zero values).
Init ==
    /\ entry = "Run"
    /\ pc = "Run"
    /\ \E n \in 0..MaxPopulation : \E vs \in InitialValues(n) :
          /\ heap = [k \in 1..n |-> NewMember(vs[k])]
          /\ population = Identities(n)
          /\ input = vs
    /\ MaxIterations \in 0..MaxIterationsBound
    /\ i = 0
    /\ Status = ""
    /\ Result = Nil
    /\ pool = <<>>
    /\ parents = <<>>
    /\ cparents = <<>>
    /\ producers = Empty
    /\ closed = FALSE
    /\ count = 0
    /\ nextGeneration = <<>>
    /\ tasks = Empty
    /\ called = <<>>
    /\ selInput = [ids |-> <<>>, total |-> Rat(0), calls |-> Empty]
    /\ bred = Empty

\* ---------------------------------------------------------------- Run ----

\* Run, lines 334-341: g.target = target, then calculatePopulationFitness
\* spawns one task per member of the population.
RunCall ==
    /\ pc = "Run"
    /\ pc' = "calculatePopulationFitness"
    /\ tasks' = SpawnTasks(population)
    /\ UNCHANGED <<entry, heap, population, MaxIterations, i, Status, Result, pool,
                   parents, cparents, producers, closed, count, nextGeneration,
                   called, selInput, bred, input>>

\* The slice the running calculatePopulationFitness works on.
FitnessSlice == IF pc = "calculatePopulationFitness" THEN population ELSE parents

\* One task of calculatePopulationFitness: population[j].CalculateFitness(g.target).
FitnessTask(k) ==
    /\ pc \in {"calculatePopulationFitness", "parentsFitness"}
    /\ k \in DOMAIN tasks
    /\ tasks[k] = "ready"
    /\ heap' = [heap EXCEPT ![FitnessSlice[TaskIndex(k)]] = CalculateFitness(@, Target)]
    /\ tasks' = [tasks EXCEPT ![k] = "done"]
    /\ UNCHANGED <<entry, pc, population, MaxIterations, i, Status, Result, pool,
                   parents, cparents, producers, closed, count, nextGeneration,
                   called, selInput, bred, input>>

\* wg.Wait() of the initial evaluation returns; Run sets the failure status
\* (line 344) and enters its loop with i = 0.
InitialFitnessReturn ==
    /\ pc = "calculatePopulationFitness"
    /\ AllDone
    /\ Status' = StatusFailed(MaxIterations)
    /\ i' = 0
    /\ tasks' = Empty
    /\ pc' = "loop"
    /\ UNCHANGED <<entry, heap, population, MaxIterations, Result, pool, parents,
                   cparents, producers, closed, count, nextGeneration, called,
                   selInput, bred, input>>

\* A faulty loop test: i <= g.MaxIterations.
LoopTestInclusive(iter, max) == iter <= max

\* The loop test of Run (line 346)
LoopTest(iter, max) == iter < max

\* The position of chromosome x in a slice that holds it; Nil stays Nil.
PositionOf(slice, x) ==
    IF x = Nil THEN Nil ELSE CHOOSE k \in 1..Len(slice) : slice[k] = x

\* The loop test i < g.MaxIterations succeeds and Run calls Selection on its
\* population.  The locals of the previous turn of the loop are out of
\* scope.  Identities are only names of heap cells: the model renames the
\* chromosome at population[k] to k, so that populations that differ only
\* in names are one state.
LoopEnter ==
    /\ pc = "loop"
    /\ LoopTest(i, MaxIterations)
    /\ heap' = [k \in 1..Len(population) |-> heap[population[k]]]
    /\ population' = Identities(Len(population))
    /\ Result' = PositionOf(population, Result)
    /\ parents' = <<>>
    /\ nextGeneration' = <<>>
    /\ cparents' = <<>>
    /\ closed' = FALSE
    /\ count' = 0
    /\ producers' = Empty
    /\ bred' = Empty
    /\ pc' = "SelectionCall"
    /\ UNCHANGED <<entry, MaxIterations, i, Status, pool, tasks, called, selInput,
                   input>>

\* The loop test fails: Run returns.
LoopExit ==
    /\ pc = "loop"
    /\ ~LoopTest(i, MaxIterations)
    /\ pc' = "done"
    /\ UNCHANGED <<entry, heap, population, MaxIterations, i, Status, Result, pool,
                   parents, cparents, producers, closed, count, nextGeneration,
                   tasks, called, selInput, bred, input>>

\* ---------------------------------------------------------- Selection ----

\* Selection is called (line 350, or directly): parentsCount is fixed from
\* the population's length and parents starts empty.
SelectionCall ==
    /\ pc = "SelectionCall"
    /\ pool' = population
    /\ parents' = <<>>
    /\ selInput' = [ids |-> population, total |-> SumFitness(heap, population, 1),
                    calls |-> [c \in Members(population) |-> 0]]
    /\ called' = Append(called, "Selection")
    /\ pc' = "Selection"
    /\ UNCHANGED <<entry, heap, population, MaxIterations, i, Status, Result,
                   cparents, producers, closed, count, nextGeneration, tasks, bred,
                   input>>

\* parentsCount of the running Selection
parentsCount == ParentsCount(Len(selInput.ids))

\* The values of rand.Float64() the model draws.
Draws == IF entry = "Selection" THEN AllDraws(heap, pool) ELSE RunDraws

\* selectParent's loops (lines 209-211, 222-225) call Normalize and
\* AccNormalize once each on every member of the population it is handed.
Passed(calls, slice) ==
    [c \in DOMAIN calls |-> IF c \in Members(slice) THEN calls[c] + 1 ELSE calls[c]]

\* One turn of Selection's loop: selectParent draws a parent from the pool.
\* selectParent indexes population[len-1], which panics on an empty pool.
SelectParentStep ==
    /\ pc = "Selection"
    /\ Len(parents) < parentsCount
    /\ IF pool = <<>>
       THEN /\ pc' = "panic"
            /\ UNCHANGED <<heap, pool, parents, selInput>>
       ELSE \E r \in Draws :
              LET s == selectParent(heap, pool, r)
              IN  /\ heap' = s.heap
                  /\ parents' = Append(parents, s.parent)
                  /\ pool' = s.rest
                  /\ selInput' = [selInput EXCEPT !.calls = Passed(@, pool)]
                  /\ pc' = pc
    /\ UNCHANGED <<entry, population, MaxIterations, i, Status, Result, cparents,
                   producers, closed, count, nextGeneration, tasks, called,
                   bred, input>>

\* Selection returns its parents; in Run, calculatePopulationFitness(parents)
\* (line 354) spawns its tasks.
SelectionReturn ==
    /\ pc = "Selection"
    /\ ~(Len(parents) < parentsCount)
    /\ IF entry = "Selection"
       THEN pc' = "done" /\ tasks' = tasks
       ELSE pc' = "parentsFitness" /\ tasks' = SpawnTasks(parents)
    /\ UNCHANGED <<entry, heap, population, MaxIterations, i, Status, Result, pool,
                   parents, cparents, producers, closed, count, nextGeneration,
                   called, selInput, bred, input>>

\* wg.Wait() of the parents' evaluation returns; Run calls Crossover.
ParentsFitnessReturn ==
    /\ pc = "parentsFitness"
    /\ AllDone
    /\ tasks' = Empty
    /\ pc' = "CrossoverCall"
    /\ UNCHANGED <<entry, heap, population, MaxIterations, i, Status, Result, pool,
                   parents, cparents, producers, closed, count, nextGeneration,
                   called, selInput, bred, input>>

\* ---------------------------------------------------------- Crossover ----

\* Crossover is called (line 358, or directly): lines 254-266 truncate its
\* own parents slice to a multiple of four, make the channel and spawn one
\* breeding task per pair.  The two children of the task at Go index j will
\* be the fresh identities kids[1], kids[2].
CrossoverCall ==
    /\ pc = "CrossoverCall"
    /\ LET length == TruncatedLength(Len(parents))
           fresh  == MaxIdentity(heap)
       IN  /\ cparents' = SubSeq(parents, 1, length)
           /\ producers' = [j \in ProducerIndexes(length) |->
                              [state |-> "breed", kids |-> <<fresh + j + 1, fresh + j + 2>>]]
    /\ closed' = FALSE
    /\ count' = 0
    /\ nextGeneration' = <<>>
    /\ bred' = Empty
    /\ called' = Append(called, "Crossover")
    /\ pc' = "Crossover"
    /\ UNCHANGED <<entry, heap, population, MaxIterations, i, Status, Result, pool,
                   parents, tasks, selInput, input>>

\* length of the running Crossover
length == Len(cparents)

\* A faulty close test: the channel is closed on the first children.
CloseTestFirst(n, len) == n > 0

\* if count >= length { close(c) } (lines 273-275)
CloseTest(n, len) == n >= len

\* b with one more occurrence of x
BagAdd(b, x) == IF x \in DOMAIN b THEN [b EXCEPT ![x] = @ + 1]
                ELSE [y \in DOMAIN b \cup {x} |-> IF y = x THEN 1 ELSE b[y]]

\* Line 263 of the task at Go index j: parents[j].Breed(parents[j+1]) makes
\* two new chromosomes.
ProducerBreed(j) ==
    /\ pc = "Crossover"
    /\ j \in DOMAIN producers
    /\ producers[j].state = "breed"
    /\ LET mom == cparents[j + 1]
           dad == cparents[j + 2]
           kids == producers[j].kids
       IN  /\ \E site \in BreedSites(heap[dad]) :
                LET values == Breed(heap[mom], heap[dad], site)
                IN  heap' = [a \in DOMAIN heap \cup {kids[1], kids[2]} |->
                                IF a = kids[1] THEN NewMember(values[1])
                                ELSE IF a = kids[2] THEN NewMember(values[2])
                                ELSE heap[a]]
           /\ bred' = BagAdd(bred, <<mom, dad>>)
    /\ producers' = [producers EXCEPT ![j].state = "send"]
    /\ UNCHANGED <<entry, pc, population, MaxIterations, i, Status, Result, pool,
                   parents, cparents, closed, count, nextGeneration, tasks, called,
                   selInput, input>>

\* Line 264 of the task at Go index j meets the consumer's range loop (lines
\* 270-276) on the unbuffered channel: the consumer appends both converted
\* children, adds 2 to count and closes the channel once count >= length.
\* A send on a closed channel panics.
ProducerSend(j) ==
    /\ pc = "Crossover"
    /\ j \in DOMAIN producers
    /\ producers[j].state = "send"
    /\ IF closed
       THEN /\ pc' = "panic"
            /\ UNCHANGED <<producers, nextGeneration, count, closed>>
       ELSE /\ nextGeneration' = nextGeneration \o
                   <<Converter(producers[j].kids[1]), Converter(producers[j].kids[2])>>
            /\ count' = count + 2
            /\ closed' = CloseTest(count + 2, length)
            /\ producers' = [producers EXCEPT ![j].state = "done"]
            /\ pc' = pc
    /\ UNCHANGED <<entry, heap, population, MaxIterations, i, Status, Result, pool,
                   parents, cparents, tasks, called, selInput, bred, input>>

\* The range loop ends on the closed channel and Crossover returns
\* nextGeneration; in Run, Mutation (line 366) spawns its tasks.
CrossoverReturn ==
    /\ pc = "Crossover"
    /\ closed
    /\ IF entry = "Crossover"
       THEN pc' = "done" /\ tasks' = tasks /\ called' = called
       ELSE /\ pc' = "Mutation"
            /\ tasks' = SpawnTasks(nextGeneration)
            /\ called' = Append(called, "Mutation")
    /\ UNCHANGED <<entry, heap, population, MaxIterations, i, Status, Result, pool,
                   parents, cparents, producers, closed, count, nextGeneration,
                   selInput, bred, input>>

\* ------------------------------------------------- Mutation and Learn ----

\* The first statement of a task of Mutation (line 289): generation[j].Mutate().
MutationTask(k) ==
    /\ pc = "Mutation"
    /\ k \in DOMAIN tasks
    /\ tasks[k] = "ready"
    /\ \E v \in MutateResults(heap[nextGeneration[TaskIndex(k)]].Value) :
          heap' = [heap EXCEPT ![nextGeneration[TaskIndex(k)]].Value = v]
    /\ tasks' = [tasks EXCEPT ![k] = "perturbed"]
    /\ UNCHANGED <<entry, pc, population, MaxIterations, i, Status, Result, pool,
                   parents, cparents, producers, closed, count, nextGeneration,
                   called, selInput, bred, input>>

\* wg.Wait() of Mutation returns; Learn (line 370) spawns its tasks.
MutationReturn ==
    /\ pc = "Mutation"
    /\ AllDone
    /\ tasks' = SpawnTasks(nextGeneration)
    /\ called' = Append(called, "Learn")
    /\ pc' = "Learn"
    /\ UNCHANGED <<entry, heap, population, MaxIterations, i, Status, Result, pool,
                   parents, cparents, producers, closed, count, nextGeneration,
                   selInput, bred, input>>

\* Chromosome.Learn: Member has no Learn of its own; the hook changes nothing.
LearnResults(value) == {value}

\* The first statement of a task of Learn (line 307): generation[j].Learn().
LearnTask(k) ==
    /\ pc = "Learn"
    /\ k \in DOMAIN tasks
    /\ tasks[k] = "ready"
    /\ \E v \in LearnResults(heap[nextGeneration[TaskIndex(k)]].Value) :
          heap' = [heap EXCEPT ![nextGeneration[TaskIndex(k)]].Value = v]
    /\ tasks' = [tasks EXCEPT ![k] = "perturbed"]
    /\ UNCHANGED <<entry, pc, population, MaxIterations, i, Status, Result, pool,
                   parents, cparents, producers, closed, count, nextGeneration,
                   called, selInput, bred, input>>

\* The second statement of a task of Mutation or Learn (lines 290, 308):
\* generation[j].CalculateFitness(g.target); the deferred wg.Done() follows.
VariationFitness(k) ==
    /\ pc \in {"Mutation", "Learn"}
    /\ k \in DOMAIN tasks
    /\ tasks[k] = "perturbed"
    /\ heap' = [heap EXCEPT ![nextGeneration[TaskIndex(k)]] = CalculateFitness(@, Target)]
    /\ tasks' = [tasks EXCEPT ![k] = "done"]
    /\ UNCHANGED <<entry, pc, population, MaxIterations, i, Status, Result, pool,
                   parents, cparents, producers, closed, count, nextGeneration,
                   called, selInput, bred, input>>

\* A faulty merge: the children are appended twice.
MergeTwice(ps, children) == ps \o children \o children

\* A faulty merge: the children alone.
MergeChildrenOnly(ps, children) == children

\* population = append(parents, nextGeneration...)
Merge(ps, children) == ps \o children

\* A faulty convergence test: on the merged population.
ConvergenceOnMerged(ps, children) == ps \o children

\* The slice Run's convergence test looks at (line 377): the new children.
ConvergenceSlice(ps, children) == children

\* wg.Wait() of Learn returns and Run finishes the generation (lines
\* 374-383): merge, record the best child, stop if it is good enough.
\* getBestChromosome indexes population[0], which panics on no children.
\* Chromosomes no slice refers to any more leave the heap.
LearnReturn ==
    /\ pc = "Learn"
    /\ AllDone
    /\ tasks' = Empty
    /\ population' = Merge(parents, nextGeneration)
    /\ pool' = <<>>
    /\ cparents' = <<>>
    /\ heap' = [a \in Members(population') |-> heap[a]]
    /\ IF nextGeneration = <<>>
       THEN /\ pc' = "panic"
            /\ UNCHANGED <<Result, Status, i>>
       ELSE /\ Result' = getBestChromosome(heap, nextGeneration)
            /\ IF isGoodEnough(heap, ConvergenceSlice(parents, nextGeneration))
               THEN /\ Status' = StatusTook(i)
                    /\ i' = i
                    /\ pc' = "done"
               ELSE /\ Status' = Status
                    /\ i' = i + 1
                    /\ pc' = "loop"
    /\ UNCHANGED <<entry, MaxIterations, parents, producers, closed, count,
                   nextGeneration, called, selInput, bred, input>>

\* ------------------------------------------------------ specifications ----

Next ==
    \/ RunCall
    \/ \E k \in DOMAIN tasks : FitnessTask(k)
    \/ InitialFitnessReturn
    \/ LoopEnter
    \/ LoopExit
    \/ SelectionCall
    \/ SelectParentStep
    \/ SelectionReturn
    \/ ParentsFitnessReturn
    \/ CrossoverCall
    \/ \E j \in DOMAIN producers : ProducerBreed(j)
    \/ \E j \in DOMAIN producers : ProducerSend(j)
    \/ CrossoverReturn
    \/ \E k \in DOMAIN tasks : MutationTask(k)
    \/ MutationReturn
    \/ \E k \in DOMAIN tasks : LearnTask(k)
    \/ \E k \in DOMAIN tasks : VariationFitness(k)
    \/ LearnReturn

Spec == Init /\ [][Next]_vars

\* The engine's other fields and locals when an exported stage is called
\* directly on a fresh engine.
Untouched ==
    /\ MaxIterations = 0
    /\ i = 0
    /\ Status = ""
    /\ Result = Nil
    /\ pool = <<>>
    /\ cparents = <<>>
    /\ producers = Empty
    /\ closed = FALSE
    /\ count = 0
    /\ nextGeneration = <<>>
    /\ tasks = Empty
    /\ called = <<>>
    /\ selInput = [ids |-> <<>>, total |-> Rat(0), calls |-> Empty]
    /\ bred = Empty
    /\ input = <<>>

\* Selection(population) called on up to MaxPool chromosomes whose fitness
\* fields hold any whole number from 0 to MaxFitness.
InitSelection ==
    /\ entry = "Selection"
    /\ pc = "SelectionCall"
    /\ \E n \in 0..MaxPool : \E fs \in [1..n -> 0..MaxFitness] :
          /\ heap = [k \in 1..n |-> [Value |-> Target, Fitness |-> Rat(fs[k])]]
          /\ population = Identities(n)
    /\ parents = <<>>
    /\ Untouched

NextSelection == SelectionCall \/ SelectParentStep \/ SelectionReturn

SpecSelection == InitSelection /\ [][NextSelection]_vars

\* Crossover(parents) called on up to MaxParents chromosomes of any values.
InitCrossover ==
    /\ entry = "Crossover"
    /\ pc = "CrossoverCall"
    /\ \E n \in 0..MaxParents : \E vs \in [1..n -> Values] :
          /\ heap = [k \in 1..n |-> CalculateFitness(NewMember(vs[k]), Target)]
          /\ parents = Identities(n)
    /\ population = <<>>
    /\ Untouched

NextCrossover ==
    \/ CrossoverCall
    \/ \E j \in DOMAIN producers : ProducerBreed(j)
    \/ \E j \in DOMAIN producers : ProducerSend(j)
    \/ CrossoverReturn

SpecCrossover == InitCrossover /\ [][NextCrossover]_vars

\* ------------------------------------- Crossover, sequential variant ----

\* One turn of the loop of the sequential Crossover (lines 517-520), entered
\* with i < len(parents): parents[i].Breed(parents[i+1]) makes two new
\* chromosomes, which are appended converted; i += 2.  The index i + 1 is
\* out of range when parents[i] is the last parent, which panics.
SequentialBreed ==
    /\ pc = "CrossoverSequential"
    /\ i < Len(parents)
    /\ IF ~(i + 1 < Len(parents))
       THEN /\ pc' = "panic"
            /\ UNCHANGED <<heap, nextGeneration, bred, i>>
       ELSE LET mom   == parents[i + 1]
                dad   == parents[i + 2]
                fresh == MaxIdentity(heap)
            IN  /\ \E site \in BreedSites(heap[dad]) :
                     LET values == Breed(heap[mom], heap[dad], site)
                     IN  heap' = [a \in DOMAIN heap \cup {fresh + 1, fresh + 2} |->
                                     IF a = fresh + 1 THEN NewMember(values[1])
                                     ELSE IF a = fresh + 2 THEN NewMember(values[2])
                                     ELSE heap[a]]
                /\ nextGeneration' = nextGeneration \o
                       <<Converter(fresh + 1), Converter(fresh + 2)>>
                /\ bred' = BagAdd(bred, <<mom, dad>>)
                /\ i' = i + 2
                /\ pc' = pc
    /\ UNCHANGED <<entry, population, MaxIterations, Status, Result, pool, parents,
                   cparents, producers, closed, count, tasks, called, selInput,
                   input>>

\* The loop test i < len(parents) fails: the sequential Crossover returns
\* nextGeneration.
SequentialReturn ==
    /\ pc = "CrossoverSequential"
    /\ ~(i < Len(parents))
    /\ pc' = "done"
    /\ UNCHANGED <<entry, heap, population, MaxIterations, i, Status, Result, pool,
                   parents, cparents, producers, closed, count, nextGeneration,
                   tasks, called, selInput, bred, input>>

\* The sequential Crossover(parents) called on up to MaxParents chromosomes
\* of any values; i is its loop variable.
InitCrossoverSequential ==
    /\ entry = "CrossoverSequential"
    /\ pc = "CrossoverSequential"
    /\ \E n \in 0..MaxParents : \E vs \in [1..n -> Values] :
          /\ heap = [k \in 1..n |-> CalculateFitness(NewMember(vs[k]), Target)]
          /\ parents = Identities(n)
    /\ population = <<>>
    /\ Untouched

NextCrossoverSequential == SequentialBreed \/ SequentialReturn

SpecCrossoverSequential == InitCrossoverSequential /\ [][NextCrossoverSequential]_vars

\* ------------------------------------------------------------- claims ----

\* The number of generations Run has started.
Generations == Cardinality({k \in 1..Len(called) : called[k] = "Selection"})

\* No chromosome occurs twice in the slice.
NoDuplicates(slice) == Cardinality(Members(slice)) = Len(slice)

\* Run stands right after the end of a generation (its merge and its
\* convergence test): parents and nextGeneration are that generation's.
PostMerge == entry = "Run" /\ pc \in {"loop", "done"} /\ Generations >= 1

\* c has the highest fitness of the slice.
IsBestOf(c, slice) ==
    /\ c \in Members(slice)
    /\ \A d \in Members(slice) : ~FGt(GetFitness(heap[d]), GetFitness(heap[c]))

\* The best child of the generation just ended is good enough.
BestChildGood ==
    \E c \in Members(nextGeneration) :
        IsBestOf(c, nextGeneration) /\ IsGoodEnough(heap[c])

\* Run has returned on convergence, with the success status of the
\* generation just ended.
StoppedWithSuccess == pc = "done" /\ Status = <<"Took ", Generations - 1, " generations.">>

\* Run stands in a stage that can take no further step: a barrier waits
\* for tasks of which none can run, or the consumer of Crossover waits on
\* an open channel on which no breeding task will send any more.
Blocked ==
    \/ /\ pc \in {"calculatePopulationFitness", "parentsFitness", "Mutation", "Learn"}
       /\ ~AllDone
       /\ \A k \in DOMAIN tasks : tasks[k] \notin {"ready", "perturbed"}
    \/ /\ pc = "Crossover"
       /\ ~closed
       /\ \A j \in DOMAIN producers : producers[j].state = "done"

\* C1: Run always returns: it never stands blocked inside a stage, it never
\* faults, and when it has returned it either converged in the generation
\* just ended or ran exactly MaxIterations generations.
C1_RunReturns ==
    /\ ~Blocked
    /\ pc # "panic"
    /\ pc = "done" => (StoppedWithSuccess /\ BestChildGood) \/ Generations = MaxIterations

\* C2: Crossover's channel is closed exactly when all expected children
\* (length of them) have arrived, and a consumer still waiting on the open
\* channel has a breeding task left that will send: it never stalls.
C2_FanInTerminates ==
    pc = "Crossover" =>
        /\ closed <=> Len(nextGeneration) = length
        /\ ~closed => \E j \in DOMAIN producers : producers[j].state # "done"

\* The adjacent pairs of the first 4 * floor(n / 4) parents.
ExpectedPairs ==
    {<<parents[2 * k + 1], parents[2 * k + 2]>> : k \in 0..(2 * (Len(parents) \div 4) - 1)}

\* C3: Crossover breeds only adjacent pairs of the first 4 * floor(n / 4)
\* parents, each at most once, and the collection it returns holds exactly
\* 4 * floor(n / 4) members: every such pair was bred exactly once and both
\* children of every breeding are in it exactly once; no parent is.
C3_CrossoverCount ==
    pc \in {"Crossover", "done"} =>
        /\ DOMAIN bred \subseteq ExpectedPairs
        /\ \A pair \in DOMAIN bred : bred[pair] = 1
        /\ NoDuplicates(nextGeneration)
        /\ Members(nextGeneration) \cap Members(parents) = {}
        /\ pc = "done" =>
              /\ Len(nextGeneration) = 4 * (Len(parents) \div 4)
              /\ DOMAIN bred = ExpectedPairs
              /\ \A j \in DOMAIN producers :
                    /\ producers[j].kids[1] # producers[j].kids[2]
                    /\ {producers[j].kids[1], producers[j].kids[2]}
                          \subseteq Members(nextGeneration)

\* C3's case: five parents were bred into four children.
C3_Witness ==
    pc = "done" /\ Len(parents) = 5 /\ Len(nextGeneration) = 4
                /\ Cardinality(DOMAIN bred) = 2

\* C4: on a population of strictly positive total fitness, Selection's
\* parents are members of the population, no member is a parent twice, the
\* pool handed to the next draw holds no parent, and Selection returns
\* exactly floor(|P| / 2) parents.
C4_SelectionDistinct ==
    (pc \in {"Selection", "done"} /\ FGt(selInput.total, Rat(0))) =>
        /\ Members(parents) \subseteq Members(selInput.ids)
        /\ NoDuplicates(parents)
        /\ Members(pool) \cap Members(parents) = {}
        /\ Members(pool) \cup Members(parents) = Members(selInput.ids)
        /\ pc = "done" => Len(parents) = Len(selInput.ids) \div 2

\* C4's case: Selection returned two parents of a four-member population
\* of positive total fitness.
C4_Witness ==
    /\ pc = "done" /\ FGt(selInput.total, Rat(0))
    /\ Len(selInput.ids) = 4 /\ Len(parents) = 2

\* C5: when Run has returned, Status is the success form with the
\* zero-based index of the last generation run, which is below
\* MaxIterations, exactly when that generation's best child is good enough,
\* and the failure form with MaxIterations otherwise, after exactly
\* MaxIterations generations; Result is the best child of the last
\* generation run.
C5_StatusAtReturn ==
    (entry = "Run" /\ pc = "done") =>
        /\ \/ /\ Status = <<"Took ", Generations - 1, " generations.">>
              /\ Generations >= 1 /\ Generations - 1 < MaxIterations
              /\ BestChildGood
           \/ /\ Status = <<"Failed to converge after ", MaxIterations, " iterations.">>
              /\ Generations = MaxIterations
              /\ ~BestChildGood
        /\ Generations >= 1 => IsBestOf(Result, nextGeneration)

\* C5's case: Run returned with success in its second generation.
C5_Witness ==
    /\ entry = "Run" /\ pc = "done" /\ Generations = 2
    /\ Status = <<"Took ", 1, " generations.">>

\* The population handed to Run held a chromosome whose value is the target.
InputHasTarget == \E k \in 1..Len(input) : input[k] = Target

\* C6 as stated: with the target in the initial population (and at least
\* one iteration allowed) Run returns with the success status of generation 0.
C6_Original ==
    (entry = "Run" /\ pc = "done" /\ InputHasTarget /\ MaxIterations >= 1) =>
        Status = <<"Took ", 0, " generations.">>

\* C6 as amended: with the target in the initial population, Run runs
\* generation 0 in full and stops there with the success status exactly
\* when the best child of generation 0 is good enough.
C6_StopsOnChildrenOfGenerationZero ==
    (PostMerge /\ InputHasTarget /\ Generations = 1) =>
        ((pc = "done" /\ Status = <<"Took ", 0, " generations.">>) <=> BestChildGood)

\* C6's case: the target was in the initial population, and Run went on
\* past generation 0 because no child of generation 0 was good enough.
C6_Witness ==
    PostMerge /\ InputHasTarget /\ Generations = 1 /\ pc = "loop" /\ ~BestChildGood

\* C7: with MaxIterations = 0 no stage but the initial fitness evaluation
\* is ever invoked, Result stays nil, and Run returns with the failure
\* status over a population whose every member has been evaluated.
C7_ZeroIterations ==
    (entry = "Run" /\ MaxIterations = 0) =>
        /\ called = <<>>
        /\ Result = Nil
        /\ parents = <<>> /\ nextGeneration = <<>>
        /\ pc \in {"Run", "calculatePopulationFitness", "loop", "done"}
        /\ pc = "done" =>
              /\ Status = <<"Failed to converge after ", 0, " iterations.">>
              /\ \A c \in Members(population) :
                    heap[c].Fitness = Rat(Len(heap[c].Value) - ld(heap[c].Value, Target))

\* C7's case: Run returned from a population of three with MaxIterations = 0.
C7_Witness ==
    entry = "Run" /\ MaxIterations = 0 /\ pc = "done" /\ Len(population) = 3

\* C8: at the end of every generation Run stops with the success status of
\* that generation exactly when the best of its children is good enough.
C8_ConvergenceOnChildren ==
    PostMerge => (StoppedWithSuccess <=> BestChildGood)

\* C8's case: a retained parent is good enough, no child is, and Run has
\* not stopped with success.
C8_Witness ==
    /\ PostMerge /\ ~StoppedWithSuccess
    /\ \E c \in Members(parents) : IsGoodEnough(heap[c])
    /\ \A c \in Members(nextGeneration) : ~IsGoodEnough(heap[c])

\* C9: the population left by a generation that began with N chromosomes
\* is the parents followed by the children, each once; its size is
\* floor(N/2) + 4 * floor(floor(N/2) / 4); the parents come from the N, the
\* children are new, and no unselected chromosome is in it.
C9_NextPopulation ==
    PostMerge =>
        LET N == Len(selInput.ids)
        IN  /\ population = parents \o nextGeneration
            /\ NoDuplicates(population)
            /\ Len(population) = (N \div 2) + 4 * ((N \div 2) \div 4)
            /\ Len(parents) = N \div 2
            /\ Members(parents) \subseteq Members(selInput.ids)
            /\ Members(nextGeneration) \cap Members(selInput.ids) = {}
            /\ Members(population) \cap Members(selInput.ids) = Members(parents)

\* C9's case: a generation that began with ten chromosomes left nine.
C9_Witness ==
    PostMerge /\ Len(selInput.ids) = 10 /\ Len(population) = 9

\* The size of the population a generation leaves when it began with n:
\* the parents of Selection and the children of Crossover.
NextSize(n) == ParentsCount(n) + TruncatedLength(ParentsCount(n))

\* C10 as stated: once Run has ended a generation, some population size up
\* to MaxPopulation is one from which a generation leaves a strictly larger
\* population.
C10_Original ==
    PostMerge => \E n \in 0..MaxPopulation : NextSize(n) > n

\* C10 as amended: the population left by a generation is never larger
\* than the population the generation began with.
C10_NeverGrows ==
    PostMerge => /\ Len(population) <= Len(selInput.ids)
                 /\ Len(population) = NextSize(Len(selInput.ids))

\* C10's case: a second generation ended with as many chromosomes as it
\* began with.
C10_Witness ==
    PostMerge /\ Generations = 2 /\ Len(population) = Len(selInput.ids)

\* C11: when Run was handed a population of even size, the population it
\* hands to Selection is of even size in every generation.
C11_EvenAtSelection ==
    (entry = "Run" /\ pc = "Selection" /\ Len(input) % 2 = 0) =>
        Len(selInput.ids) % 2 = 0

\* Chromosome c holds the fitness CalculateFitness gives its value.
Evaluated(c) == heap[c].Fitness = Rat(Len(heap[c].Value) - ld(heap[c].Value, Target))

\* calculatePopulationFitness is running.
InFitness == pc \in {"calculatePopulationFitness", "parentsFitness"}

\* C12: calculatePopulationFitness runs exactly one task per chromosome of
\* its slice, no task step changes a slice, and the step by which it
\* returns is taken only when every task has finished, with every member
\* evaluated and the slice as it was at the call.
C12_FullBarrier ==
    [][InFitness =>
          /\ DOMAIN tasks = 1..Len(FitnessSlice)
          /\ population' = population /\ parents' = parents
          /\ pc' # pc =>
                /\ \A k \in DOMAIN tasks : tasks[k] = "done"
                /\ \A k \in 1..Len(FitnessSlice) : Evaluated(FitnessSlice[k])
                /\ heap' = heap]_vars

\* C12's case: the evaluation of five parents, whose fitness fields held
\* Selection's accumulated values, has returned.
C12_Witness ==
    /\ pc = "CrossoverCall" /\ Len(parents) = 5 /\ tasks = Empty
    /\ \A k \in 1..Len(parents) : Evaluated(parents[k])

\* Mutation or Learn is running.
InVariation == pc \in {"Mutation", "Learn"}

\* C13: while Mutation or Learn runs there is one task per child, the
\* collection keeps its members at their indices, a child's value changes
\* only in a task that has not yet evaluated it, its fitness is computed
\* only after its perturbation, and the stage returns only when every task
\* is done, with every child's fitness that of its perturbed value.
C13_VariationStages ==
    [][InVariation =>
          /\ DOMAIN tasks = 1..Len(nextGeneration)
          /\ nextGeneration' = nextGeneration
          /\ \A k \in DOMAIN tasks :
                LET c == nextGeneration[k]
                IN  /\ heap'[c].Value # heap[c].Value => tasks[k] = "ready"
                    /\ (tasks[k] # "done" /\ tasks'[k] = "done") =>
                          tasks[k] = "perturbed" /\ Evaluated(c)'
                    /\ tasks[k] = "done" => Evaluated(c)
          /\ pc' # pc =>
                /\ \A k \in DOMAIN tasks : tasks[k] = "done"
                /\ \A k \in 1..Len(nextGeneration) : Evaluated(nextGeneration[k])
                /\ heap' = [a \in DOMAIN heap' |-> heap[a]]]_vars

\* C13's case: from an initial population without the target, Mutation has
\* returned four children of which one was mutated into the target and
\* holds the target's fitness.
C13_Witness ==
    /\ pc = "Learn" /\ Generations = 1 /\ Len(nextGeneration) = 4
    /\ \A k \in DOMAIN tasks : tasks[k] = "ready"
    /\ \A k \in 1..Len(input) : input[k] # Target
    /\ \E k \in 1..Len(nextGeneration) :
          heap[nextGeneration[k]] = [Value |-> Target, Fitness |-> Rat(Len(Target))]

\* C14: in Crossover the channel is closed only when every one of the
\* length / 2 breeding tasks has had its send received, so no task is left
\* to send on the closed channel and no send ever faults; once closed the
\* channel receives nothing more and stays closed, so it is closed once.
C14_NoSendAfterClose ==
    [][/\ pc # "panic"
       /\ (pc = "Crossover" /\ closed) =>
             /\ count = length
             /\ Len(nextGeneration) = length
             /\ Cardinality(DOMAIN producers) = length \div 2
             /\ \A j \in DOMAIN producers : producers[j].state = "done"
             /\ closed' /\ count' = count /\ nextGeneration' = nextGeneration
       /\ (pc = "Crossover" /\ ~closed /\ closed') =>
             /\ count' = length
             /\ \A j \in DOMAIN producers : producers'[j].state = "done"]_vars

\* C14's case: the channel was closed after the sends of all four breeding
\* tasks of eight parents.
C14_Witness ==
    /\ pc = "Crossover" /\ closed /\ length = 8 /\ count = 8
    /\ Cardinality(DOMAIN producers) = 4

\* The tasks of the running barrier stage that have not finished, and the
\* chromosome each of them works on.
LiveTasks == {k \in DOMAIN tasks : tasks[k] # "done"}

TaskTouches(k) ==
    IF InFitness THEN {FitnessSlice[TaskIndex(k)]} ELSE {nextGeneration[TaskIndex(k)]}

\* The breeding tasks of Crossover that have not finished, and the
\* chromosomes each of them works on: its two parents until it has bred,
\* its two children until the consumer has received them.
LiveProducers == {j \in DOMAIN producers : producers[j].state # "done"}

ProducerTouches(j) ==
    IF producers[j].state = "breed" THEN {cparents[j + 1], cparents[j + 2]}
    ELSE {producers[j].kids[1], producers[j].kids[2]}

\* No two unfinished tasks of the running stage work on one chromosome, and
\* no unfinished breeding task on one the consumer already holds.
ExclusiveAccess ==
    /\ (InFitness \/ InVariation) =>
          \A j \in LiveTasks : \A k \in LiveTasks \ {j} :
              TaskTouches(j) \cap TaskTouches(k) = {}
    /\ pc = "Crossover" =>
          /\ \A j \in LiveProducers : \A k \in LiveProducers \ {j} :
                ProducerTouches(j) \cap ProducerTouches(k) = {}
          /\ \A j \in LiveProducers :
                ProducerTouches(j) \cap Members(nextGeneration) = {}

\* No step of a task resizes a collection: in a barrier stage every slice
\* keeps its length until the stage returns, and in Crossover the result
\* grows only by the consumer's receive of one task's two children.
ResizedByCallerOnly ==
    /\ (InFitness \/ InVariation) /\ pc' = pc =>
          /\ population' = population /\ parents' = parents
          /\ nextGeneration' = nextGeneration
    /\ pc = "Crossover" /\ nextGeneration' # nextGeneration =>
          \E j \in DOMAIN producers :
              /\ producers[j].state = "send" /\ producers'[j].state = "done"
              /\ nextGeneration' = nextGeneration \o producers[j].kids
              /\ \A k \in DOMAIN producers \ {j} : producers'[k] = producers[k]
    /\ pc = "Crossover" /\ pc' = pc => cparents' = cparents /\ parents' = parents

\* C15: in every parallel stage of every generation of Run, the unfinished
\* tasks work on pairwise different chromosomes, and no task resizes a
\* collection while other tasks run.
C15_ExclusiveAccess == [](entry = "Run" => ExclusiveAccess) /\ [][ResizedByCallerOnly]_vars

\* C15's case: in the second generation two tasks of Mutation stand between
\* their Mutate and their CalculateFitness at the same time.
C15_Witness ==
    /\ entry = "Run" /\ pc = "Mutation" /\ Generations = 2
    /\ Cardinality({k \in DOMAIN tasks : tasks[k] = "perturbed"}) >= 2

\* The steps Run's control may take from one stage to the next: the initial
\* evaluation, then per generation Selection, the parents' evaluation,
\* Crossover, Mutation, Learn, and the merge with the convergence test,
\* which leads back to the loop test or out of Run.
StageOrder ==
    { <<"Run", "calculatePopulationFitness">>,
      <<"calculatePopulationFitness", "loop">>,
      <<"loop", "SelectionCall">>, <<"loop", "done">>,
      <<"SelectionCall", "Selection">>,
      <<"Selection", "parentsFitness">>,
      <<"parentsFitness", "CrossoverCall">>,
      <<"CrossoverCall", "Crossover">>,
      <<"Crossover", "Mutation">>,
      <<"Mutation", "Learn">>,
      <<"Learn", "loop">>, <<"Learn", "done">> }

\* The stages g generations log, in order.
RECURSIVE StageLog(_)
StageLog(g) ==
    IF g = 0 THEN <<>>
    ELSE StageLog(g - 1) \o <<"Selection", "Crossover", "Mutation", "Learn">>

\* called is a prefix of what Generations generations log.
LoggedInOrder == called = SubSeq(StageLog(Generations), 1, Len(called))

\* C16: Run moves from stage to stage only in the order initial evaluation,
\* then per generation Selection, evaluation of the parents, Crossover,
\* Mutation, Learn, merge and convergence test; it leaves a stage only when
\* no task of the stage is unfinished; the first Selection finds every
\* member of the population evaluated; and the step that ends Learn is the
\* merge followed by the convergence test on the children.
C16_StageOrder ==
    [][entry = "Run" =>
          /\ LoggedInOrder
          /\ pc' # pc =>
                /\ <<pc, pc'>> \in StageOrder
                /\ LiveTasks = {} /\ LiveProducers = {}
                /\ pc = "Crossover" => closed
                /\ tasks' # Empty => \A k \in DOMAIN tasks' : tasks'[k] = "ready"
          /\ (pc' = "SelectionCall" /\ Generations = 0) =>
                \A k \in 1..Len(population) : Evaluated(population[k])
          /\ (pc = "parentsFitness" /\ pc' # pc) =>
                \A k \in 1..Len(parents) : Evaluated(parents[k])
          /\ (pc = "Learn" /\ pc' # pc) =>
                /\ population' = parents \o nextGeneration
                /\ pc' = "done" <=> isGoodEnough(heap, nextGeneration)]_vars

\* C16's case: the second generation has gone through all its stages, up
\* to the merge and the convergence test.
C16_Witness ==
    /\ entry = "Run" /\ pc \in {"loop", "done"}
    /\ called = StageLog(2)
    /\ population = parents \o nextGeneration

\* The heap after step 1 of selectParent on a slice: every member's
\* fitness divided by the slice's sum.
Normalized(h, slice) == NormalizeAll(h, slice, SumFitness(h, slice, 1), 1)

\* Selection is about to draw from a pool whose fitness sum is positive.
DrawAhead ==
    /\ pc = "Selection" /\ Len(parents) < parentsCount /\ pool # <<>>
    /\ FGt(SumFitness(heap, pool, 1), Rat(0))

\* x >= y
FGe(x, y) == ~IsNaN(x) /\ ~IsNaN(y) /\ x.n * y.d >= y.n * x.d

\* C17: in each draw from a pool of positive fitness sum, the sort step
\* leaves the pool in the order of descending normalized fitness, the
\* order in which accumulation and scan then walk it.
C17_DescendingAfterSort ==
    DrawAhead =>
        LET h1     == Normalized(heap, pool)
            sorted == Accumulated(heap, pool).sorted
        IN  \A k \in 1..(Len(sorted) - 1) :
                FGe(GetFitness(h1[sorted[k]]), GetFitness(h1[sorted[k + 1]]))

\* C18: during one Selection call on a population of positive fitness sum
\* no chromosome goes through Normalize and AccNormalize more than once.
C18_NormalizedOnce ==
    (entry = "Selection" /\ pc \in {"Selection", "done"} /\ FGt(selInput.total, Rat(0))) =>
        \A c \in DOMAIN selInput.calls : selInput.calls[c] <= 1

\* C19: in every draw of a Selection whose population has a positive
\* fitness sum, the accumulated values are non-decreasing in scan order and
\* the last of them is 1.
C19_AccumulatedToOne ==
    (entry = "Selection" /\ pc = "Selection" /\ Len(parents) < parentsCount
        /\ pool # <<>> /\ FGt(selInput.total, Rat(0))) =>
        LET a   == Accumulated(heap, pool)
            acc == [k \in 1..Len(a.sorted) |-> GetFitness(a.heap[a.sorted[k]])]
        IN  /\ \A k \in 1..(Len(acc) - 1) : FGe(acc[k + 1], acc[k])
            /\ acc[Len(acc)] = Rat(1)

\* C20: the sequential Crossover never faults, and it returns as many
\* children as the concurrent Crossover returns for the same parents: the
\* parent count truncated to a multiple of four.
C20_NoFaultSameCount ==
    entry = "CrossoverSequential" =>
        /\ pc # "panic"
        /\ pc = "done" => Len(nextGeneration) = TruncatedLength(Len(parents))

====
